---------------------------- MODULE Spec2Model ----------------------------
(***************************************************************************)
(* A model of ilml: the ion / ionic-liquid data model (chemistry.py), the  *)
(* featurizers (featurization/featurizers.py) and the combining rules      *)
(* (featurization/combining_rules.py).                                     *)
(*                                                                         *)
(* Four specifications share this module:                                  *)
(*   Spec        featurization: the memoized descriptor call, IonFeaturizer *)
(*               and IonicLiquidFeaturizer in both modes;                  *)
(*   SpecChem    construction of Ion, Cation, Anion and IonicLiquid from   *)
(*               notation;                                                 *)
(*   SpecFamily  Ion.chemical_family over the class pattern tables;        *)
(*   SpecRules   the registered combining rules as pure functions.         *)
(***************************************************************************)
EXTENDS Integers, Sequences, FiniteSets, TLC

VARIABLES
    \* ---- Spec (featurization)
    toolkit,          \* what CalcMolDescriptors computes for each structure
    cacheTable,       \* memoization table: structure -> reference of the stored result
    heap,             \* reference -> contents of a descriptor mapping (a Python dict)
    invocations,      \* structure -> number of invocations of CalcMolDescriptors
    returned,         \* structure -> references handed out by _featurize so far
    ncalls,           \* featurizer calls made so far
    op,               \* the last call made
    outcome,          \* "none", "ok" or the name of the exception raised
    result,           \* the mapping the last call returned
    cation_features,  \* ion_featurizer(ionic_liquid.cation) of the last IonicLiquidFeaturizer call
    anion_features,   \* ion_featurizer(ionic_liquid.anion) of the last IonicLiquidFeaturizer call
    \* ---- SpecChem (construction)
    kind,             \* the class whose from_smiles was called
    input,            \* the notation passed
    chemOutcome,      \* "none", "ok" or the name of the exception raised
    obj,              \* the object constructed
    prevInput,        \* the notation of the call before, when two calls are compared
    prevOutcome,      \* its outcome
    prevObj,          \* its object
    \* ---- SpecFamily (classification)
    famClass,         \* "Ion", "Cation" or "Anion"
    matches,          \* the SMARTS patterns the ion's structure matches
    family,           \* the value of chemical_family
    famDone,          \* whether chemical_family has been read
    \* ---- SpecRules (combining rules)
    ruleName,         \* the registered rule applied
    ruleIL,           \* its ionic_liquid argument
    ruleC,            \* its cation_feature argument
    ruleA,            \* its anion_feature argument
    ruleOut,          \* its return value
    ruleDone          \* whether the rule has been applied

featVars == <<toolkit, cacheTable, heap, invocations, returned, ncalls, op,
              outcome, result, cation_features, anion_features>>
chemVars == <<kind, input, chemOutcome, obj, prevInput, prevOutcome, prevObj>>
famVars  == <<famClass, matches, family, famDone>>
ruleVars == <<ruleName, ruleIL, ruleC, ruleA, ruleOut, ruleDone>>
vars     == <<featVars, chemVars, famVars, ruleVars>>

-----------------------------------------------------------------------------
(* Bounds of the model.                                                    *)

MaxCalls == 2       \* featurizer calls per behaviour
MaxLen == 4         \* length of a notation, in tokens
MaxMatches == 2     \* patterns one structure matches at once
MaxVal == 2         \* magnitude of a feature value given to a rule
FloatBits == 3      \* significand bits of a float (53 in CPython), scaled down

-----------------------------------------------------------------------------
(* Python values: int, float (an exact fraction n/d, or NaN), str, None.   *)

PyInt(k)      == [t |-> "int",   n |-> k, d |-> 1, s |-> ""]
PyNaN         == [t |-> "nan",   n |-> 0, d |-> 1, s |-> ""]
PyStr(text)   == [t |-> "str",   n |-> 0, d |-> 1, s |-> text]
PyNone        == [t |-> "None",  n |-> 0, d |-> 1, s |-> ""]

Abs(k) == IF k < 0 THEN -k ELSE k

RECURSIVE GCD(_, _)
GCD(x, y) == IF y = 0 THEN x ELSE GCD(y, x % y)

\* the exponents of a float (-1022..1023 in CPython), scaled down
Exponents == (-12)..12

\* the power of two 2^k, as <<numerator, denominator>>
Pow2(k) == IF k >= 0 THEN <<2^k, 1>> ELSE <<1, 2^(-k)>>

\* the power of two 2^e that scales n/d, n > 0 and d > 0, to a significand of
\* FloatBits bits: 2^(FloatBits-1) <= (n/d) / 2^e < 2^FloatBits
Exponent(n, d) ==
    Pow2(CHOOSE k \in Exponents :
             LET p == Pow2(k)
             IN /\ n * p[2] >= d * p[1] * 2^(FloatBits - 1)
                /\ n * p[2] < d * p[1] * 2^FloatBits)

\* the significand of n/d, n > 0 and d > 0, under the exponent e: the nearest
\* integer to (n/d) / 2^e, a tie going to the even one
Significand(n, d, e) ==
    LET num == n * e[2]
        den == d * e[1]
        m == num \div den
        rest == num - m * den
    IN IF 2 * rest > den \/ (2 * rest = den /\ m % 2 = 1) THEN m + 1 ELSE m

\* the float sgn * m * 2^e as a fraction in lowest terms
Scaled(sgn, m, e) ==
    LET g == GCD(m * e[1], e[2])
    IN [t |-> "float", n |-> sgn * ((m * e[1]) \div g), d |-> e[2] \div g, s |-> ""]

\* the float nearest to the fraction q = <<n, d>>, d # 0
NearestFloat(q) ==
    IF q[1] = 0 THEN [t |-> "float", n |-> 0, d |-> 1, s |-> ""]
    ELSE LET sgn == IF (q[1] < 0) = (q[2] < 0) THEN 1 ELSE -1
         IN CHOOSE x \in {Scaled(sgn, Significand(Abs(q[1]), Abs(q[2]), e), e) :
                             e \in {Exponent(Abs(q[1]), Abs(q[2]))}} : TRUE

\* the float nearest to n/d, d # 0, as a fraction in lowest terms with a
\* positive denominator: every float operation rounds its exact result so
PyFloat(n, d) == CHOOSE x \in {NearestFloat(q) : q \in {<<n, d>>}} : TRUE

IsNaN(x) == x.t = "nan"

\* x + y on floats
PyAdd(x, y) ==
    IF IsNaN(x) \/ IsNaN(y) THEN PyNaN
    ELSE PyFloat(x.n * y.d + y.n * x.d, x.d * y.d)

\* x * y on floats and ints
PyMul(x, y) ==
    IF IsNaN(x) \/ IsNaN(y) THEN PyNaN
    ELSE PyFloat(x.n * y.n, x.d * y.d)

\* x / y on floats, y # 0
PyDiv(x, y) ==
    IF IsNaN(x) \/ IsNaN(y) THEN PyNaN
    ELSE PyFloat(x.n * y.d, x.d * y.n)

\* abs(x)
PyAbs(x) == IF IsNaN(x) THEN PyNaN ELSE [x EXCEPT !.n = Abs(x.n)]

\* x < y: every comparison with NaN is False
PyLess(x, y) == ~IsNaN(x) /\ ~IsNaN(y) /\ x.n * y.d < y.n * x.d

\* min(x, y) and max(x, y): the first argument unless the second beats it
PyMin(x, y) == IF PyLess(y, x) THEN y ELSE x
PyMax(x, y) == IF PyLess(x, y) THEN y ELSE x

\* float(str): the strings of the model that parse
ParsesAsFloat(text) == text \in {"2", "0.5", "nan"}
ParseFloat(text) ==
    CASE text = "2"   -> PyFloat(2, 1)
      [] text = "0.5" -> PyFloat(1, 2)
      [] text = "nan" -> PyNaN

\* float(value) raises TypeError (None) or ValueError (a str that does not parse)
FloatRaises(value) ==
    \/ value.t = "None"
    \/ value.t = "str" /\ ~ParsesAsFloat(value.s)

\* float(value), where it does not raise
ToFloat(value) ==
    CASE value.t = "int"   -> PyFloat(value.n, 1)
      [] value.t = "float" -> value
      [] value.t = "nan"   -> value
      [] value.t = "str"   -> ParseFloat(value.s)

(* Python dicts are functions with a finite domain. *)
EmptyDict == <<>>
Restrict(dict, keys) == [k \in keys |-> dict[k]]

-----------------------------------------------------------------------------
(* The molecular-structure toolkit (rdkit), as chemistry.py uses it.  A    *)
(* notation is a sequence of tokens: atoms, and "." between fragments.     *)
(* A structure keeps the atoms in the order written; the canonical         *)
(* notation orders them, so different notations of one structure           *)
(* canonicalize to the same text.                                          *)

Atoms == {"C", "N+", "Cl-"}
Dot == "."
Tokens == Atoms \cup {Dot}

\* the notations of the model: every token sequence up to MaxLen
Notations == UNION {[1..n -> Tokens] : n \in 0..MaxLen}
\* the notations without a fragment separator
Fragments == UNION {[1..n -> Atoms] : n \in 0..MaxLen}

\* Chem.MolFromSmiles
MolFromSmiles(smiles) == [atoms |-> smiles]

AtomCharge(atom) == CASE atom = "N+" -> 1 [] atom = "Cl-" -> -1 [] OTHER -> 0
AtomRank(atom)   == CASE atom = "C" -> 1 [] atom = "Cl-" -> 2 [] OTHER -> 3
AtomWeight(atom) == CASE atom = "C" -> 12 [] atom = "Cl-" -> 35 [] OTHER -> 14

RECURSIVE SumCharges(_)
SumCharges(atoms) ==
    IF atoms = <<>> THEN 0 ELSE AtomCharge(Head(atoms)) + SumCharges(Tail(atoms))

RECURSIVE SumWeights(_)
SumWeights(atoms) ==
    IF atoms = <<>> THEN 0 ELSE AtomWeight(Head(atoms)) + SumWeights(Tail(atoms))

\* Chem.GetFormalCharge
GetFormalCharge(mol) == SumCharges(mol.atoms)
\* Mol.GetNumAtoms
GetNumAtoms(mol) == Len(mol.atoms)
\* Descriptors.MolWt
MolWt(mol) == PyFloat(SumWeights(mol.atoms), 1)

RECURSIVE InsertAtom(_, _)
InsertAtom(atom, sorted) ==
    IF sorted = <<>> THEN <<atom>>
    ELSE IF AtomRank(atom) <= AtomRank(Head(sorted)) THEN <<atom>> \o sorted
    ELSE <<Head(sorted)>> \o InsertAtom(atom, Tail(sorted))

RECURSIVE SortAtoms(_)
SortAtoms(atoms) ==
    IF atoms = <<>> THEN <<>> ELSE InsertAtom(Head(atoms), SortAtoms(Tail(atoms)))

\* Chem.MolToSmiles(mol, isomericSmiles=False)
MolToSmiles(mol) == SortAtoms(mol.atoms)

\* str.split("."): the pieces between the separators, empty pieces included
RECURSIVE Split(_)
Split(smiles) ==
    IF \A i \in 1..Len(smiles) : smiles[i] # Dot THEN <<smiles>>
    ELSE LET i == CHOOSE j \in 1..Len(smiles) :
                      smiles[j] = Dot /\ \A k \in 1..(j - 1) : smiles[k] # Dot
         IN <<SubSeq(smiles, 1, i - 1)>> \o Split(SubSeq(smiles, i + 1, Len(smiles)))

-----------------------------------------------------------------------------
(* chemistry.py: Ion, Cation, Anion, IonicLiquid.                          *)

NoObject == [cls |-> "none"]

\* Ion.charge
charge(self) == GetFormalCharge(self.rdkit_mol)
\* Ion.atom_count
atom_count(self) == GetNumAtoms(self.rdkit_mol)
\* Ion.molecular_weight
molecular_weight(self) == MolWt(self.rdkit_mol)

\* Ion.__post_init__: "ok", or the exception raised
Ion_post_init(self) ==
    IF charge(self) = 0 THEN "InvalidChargeError" ELSE "ok"

Cation_post_init_nosign(self) == Ion_post_init(self)

\* Cation.__post_init__
Cation_post_init(self) ==
    IF Ion_post_init(self) # "ok" THEN Ion_post_init(self)
    ELSE IF charge(self) < 0 THEN "InvalidChargeError"
    ELSE "ok"

Anion_post_init_as_cation(self) ==
    IF Ion_post_init(self) # "ok" THEN Ion_post_init(self)
    ELSE IF charge(self) < 0 THEN "InvalidChargeError"
    ELSE "ok"

\* Anion.__post_init__
Anion_post_init(self) ==
    IF Ion_post_init(self) # "ok" THEN Ion_post_init(self)
    ELSE IF charge(self) > 0 THEN "InvalidChargeError"
    ELSE "ok"

\* cls(smiles, rdkit_mol): the dataclass __init__, then the class's __post_init__
New(cls, smiles, rdkit_mol) ==
    LET self == [cls |-> cls, smiles |-> smiles, rdkit_mol |-> rdkit_mol]
        raised == CASE cls = "Ion"    -> Ion_post_init(self)
                    [] cls = "Cation" -> Cation_post_init(self)
                    [] cls = "Anion"  -> Anion_post_init(self)
    IN [outcome |-> raised, obj |-> IF raised = "ok" THEN self ELSE NoObject]

\* Ion.from_smiles, a classmethod: cls is Ion, Cation or Anion
Ion_from_smiles(cls, smiles) ==
    LET rdkit_molecule == MolFromSmiles(smiles)
    IN New(cls, MolToSmiles(rdkit_molecule), rdkit_molecule)

OrderIons_noswap(left_ion, right_ion) == <<left_ion, right_ion>>

\* IonicLiquid.from_smiles, "if left_ion.charge < 0: swap"
OrderIons(left_ion, right_ion) ==
    IF charge(left_ion) < 0 THEN <<right_ion, left_ion>> ELSE <<left_ion, right_ion>>

\* IonicLiquid.from_smiles
IonicLiquid_from_smiles(smiles) ==
    LET parts == Split(smiles)
    IN IF Len(parts) # 2 THEN [outcome |-> "ValueError", obj |-> NoObject]
       ELSE
       LET left == Ion_from_smiles("Ion", parts[1])
       IN IF left.outcome # "ok" THEN left
          ELSE
          LET right == Ion_from_smiles("Ion", parts[2])
          IN IF right.outcome # "ok" THEN right
             ELSE
             LET ordered == OrderIons(left.obj, right.obj)
                 cation == New("Cation", ordered[1].smiles, ordered[1].rdkit_mol)
             IN IF cation.outcome # "ok" THEN cation
                ELSE
                LET anion == New("Anion", ordered[2].smiles, ordered[2].rdkit_mol)
                IN IF anion.outcome # "ok" THEN anion
                   ELSE [outcome |-> "ok",
                         obj |-> [cls |-> "IonicLiquid",
                                  cation |-> cation.obj, anion |-> anion.obj]]

\* IonicLiquid.smiles
IonicLiquid_smiles(self) == self.cation.smiles \o <<Dot>> \o self.anion.smiles
\* IonicLiquid.atom_count
IonicLiquid_atom_count(self) == atom_count(self.cation) + atom_count(self.anion)
\* IonicLiquid.molecular_weight
IonicLiquid_molecular_weight(self) ==
    PyAdd(molecular_weight(self.cation), molecular_weight(self.anion))

-----------------------------------------------------------------------------
(* featurization/combining_rules.py: the registered rules.                 *)

sum(ionic_liquid, cation_feature, anion_feature) ==
    PyAdd(cation_feature, anion_feature)

min_abs_as_max(ionic_liquid, cation_feature, anion_feature) ==
    PyMax(PyAbs(cation_feature), PyAbs(anion_feature))

min_abs(ionic_liquid, cation_feature, anion_feature) ==
    PyMin(PyAbs(cation_feature), PyAbs(anion_feature))

max_abs(ionic_liquid, cation_feature, anion_feature) ==
    PyMax(PyAbs(cation_feature), PyAbs(anion_feature))

mean(ionic_liquid, cation_feature, anion_feature) ==
    PyMul(PyFloat(1, 2), PyAdd(cation_feature, anion_feature))

mean_atom_count_swapped(ionic_liquid, cation_feature, anion_feature) ==
    PyDiv(PyAdd(PyMul(PyInt(atom_count(ionic_liquid.anion)), cation_feature),
                PyMul(PyInt(atom_count(ionic_liquid.cation)), anion_feature)),
          PyInt(IonicLiquid_atom_count(ionic_liquid)))

mean_atom_count(ionic_liquid, cation_feature, anion_feature) ==
    PyDiv(PyAdd(PyMul(PyInt(atom_count(ionic_liquid.cation)), cation_feature),
                PyMul(PyInt(atom_count(ionic_liquid.anion)), anion_feature)),
          PyInt(IonicLiquid_atom_count(ionic_liquid)))

mean_molecular_weight(ionic_liquid, cation_feature, anion_feature) ==
    PyDiv(PyAdd(PyMul(molecular_weight(ionic_liquid.cation), cation_feature),
                PyMul(molecular_weight(ionic_liquid.anion), anion_feature)),
          IonicLiquid_molecular_weight(ionic_liquid))

\* the names registered in combining_rules; "concatenate" maps to None
Concatenate == "concatenate"
RuleNames == {"sum", "min_abs", "max_abs", "mean", "mean_atom_count",
              "mean_molecular_weight"}

\* combining_rules[name](ionic_liquid, cation_feature, anion_feature)
combining_rule(name, ionic_liquid, cation_feature, anion_feature) ==
    CASE name = "sum"     -> sum(ionic_liquid, cation_feature, anion_feature)
      [] name = "min_abs" -> min_abs(ionic_liquid, cation_feature, anion_feature)
      [] name = "max_abs" -> max_abs(ionic_liquid, cation_feature, anion_feature)
      [] name = "mean"    -> mean(ionic_liquid, cation_feature, anion_feature)
      [] name = "mean_atom_count" ->
             mean_atom_count(ionic_liquid, cation_feature, anion_feature)
      [] name = "mean_molecular_weight" ->
             mean_molecular_weight(ionic_liquid, cation_feature, anion_feature)

-----------------------------------------------------------------------------
(* featurization/featurizers.py.  The operators below pass the memory      *)
(* (cacheTable, heap, invocations) through a call and return it with the   *)
(* call's value, so that one action is one whole call.                     *)

\* the ionic liquid featurized in Spec: the object that
\* IonicLiquid.from_smiles(<<"N+", "C", ".", "Cl-">>) returns
TheIL ==
    [cls |-> "IonicLiquid",
     cation |-> [cls |-> "Cation", smiles |-> <<"C", "N+">>,
                 rdkit_mol |-> [atoms |-> <<"N+", "C">>]],
     anion  |-> [cls |-> "Anion", smiles |-> <<"Cl-">>,
                 rdkit_mol |-> [atoms |-> <<"Cl-">>]]]
Mols == {TheIL.cation.rdkit_mol, TheIL.anion.rdkit_mol}

\* descriptor names and the values the toolkit may give them
Names == {"A", "B"}
RawValues == {PyInt(-2), PyNaN, PyStr("abc"), PyStr("2"), PyNone}
RawMappings == UNION {[D -> RawValues] : D \in SUBSET Names}

Memory == [cacheTable |-> cacheTable, heap |-> heap, invocations |-> invocations]

\* rdkit.Chem.Descriptors.CalcMolDescriptors: a fresh dict of the descriptors
CalcMolDescriptors(m, mol) ==
    LET ref == [mol |-> mol, n |-> m.invocations[mol] + 1]
    IN [m |-> [m EXCEPT !.heap = (ref :> toolkit[mol]) @@ m.heap,
                        !.invocations[mol] = @ + 1],
        ref |-> ref]

\* cache(CalcMolDescriptors): the stored result if there is one, else the
\* function's result, stored
rdkit_calc_mol_descriptors(m, mol) ==
    IF mol \in DOMAIN m.cacheTable
    THEN [m |-> m, ref |-> m.cacheTable[mol]]
    ELSE LET called == CalcMolDescriptors(m, mol)
         IN [m |-> [called.m EXCEPT
                        !.cacheTable = (mol :> called.ref) @@ called.m.cacheTable],
             ref |-> called.ref]

RDKitIonFeaturizer_featurize_uncached(m, ion) ==
    CalcMolDescriptors(m, ion.rdkit_mol)

\* RDKitIonFeaturizer._featurize
RDKitIonFeaturizer_featurize(m, ion) ==
    rdkit_calc_mol_descriptors(m, ion.rdkit_mol)

Coerce_zero_on_error(value) ==
    IF FloatRaises(value) THEN PyFloat(0, 1) ELSE ToFloat(value)

\* IonFeaturizer.__call__, the body of the loop:
\* try features[name] = float(value), except (TypeError, ValueError): None
Coerce(value) ==
    IF FloatRaises(value) THEN PyNone ELSE ToFloat(value)

IonFeaturizer_call_placeholder(m, ion) ==
    LET got == RDKitIonFeaturizer_featurize(m, ion)
        features == got.m.heap[got.ref]
        coerced == [name \in DOMAIN features |->
                       IF FloatRaises(features[name]) THEN PyFloat(0, 1)
                       ELSE ToFloat(features[name])]
    IN [m |-> [got.m EXCEPT !.heap[got.ref] = coerced],
        ref |-> got.ref,
        out |-> Restrict(coerced, {name \in DOMAIN coerced : ~FloatRaises(features[name])})]

\* IonFeaturizer.__call__: the features dict is coerced in place, and a new
\* dict of its entries that are not None is returned
IonFeaturizer_call(m, ion) ==
    LET got == RDKitIonFeaturizer_featurize(m, ion)
        features == got.m.heap[got.ref]
        coerced == [name \in DOMAIN features |-> Coerce(features[name])]
    IN [m |-> [got.m EXCEPT !.heap[got.ref] = coerced],
        ref |-> got.ref,
        out |-> Restrict(coerced, {name \in DOMAIN coerced : coerced[name] # PyNone})]

\* dict.get(name)
Get(dict, name) == IF name \in DOMAIN dict THEN dict[name] ELSE PyNone

\* IonicLiquidFeaturizer.__call__ with a combining rule: cation_features[name]
\* raises KeyError for a name the cation side lacks
ModeA(rule, ionic_liquid, cation_feats, anion_feats) ==
    LET feature_names == DOMAIN cation_feats \cup DOMAIN anion_feats
    IN IF \E name \in feature_names : name \notin DOMAIN cation_feats
       THEN [outcome |-> "KeyError", out |-> EmptyDict]
       ELSE LET kept == {name \in feature_names :
                            /\ cation_feats[name] # PyNone
                            /\ Get(anion_feats, name) # PyNone}
            IN [outcome |-> "ok",
                out |-> [name \in kept |->
                            combining_rule(rule, ionic_liquid,
                                           cation_feats[name], anion_feats[name])]]

CationSuffix == "_cation"
AnionSuffix_as_cation == "_cation"
AnionSuffix == "_anion"

\* {f"{name}{suffix}": value for name, value in features.items()}
Rename(features, suffix) ==
    [key \in {name \o suffix : name \in DOMAIN features} |->
        features[CHOOSE name \in DOMAIN features : name \o suffix = key]]

\* {**first, **second}: second's entries win
Merge(first, second) ==
    [key \in DOMAIN first \cup DOMAIN second |->
        IF key \in DOMAIN second THEN second[key] ELSE first[key]]

\* IonicLiquidFeaturizer.__call__ without a combining rule
ModeB(cation_feats, anion_feats) ==
    [outcome |-> "ok",
     out |-> Merge(Rename(cation_feats, CationSuffix),
                   Rename(anion_feats, AnionSuffix))]

\* IonicLiquidFeaturizer.__call__
IonicLiquidFeaturizer_call(m, rule, ionic_liquid) ==
    LET c == IonFeaturizer_call(m, ionic_liquid.cation)
        a == IonFeaturizer_call(c.m, ionic_liquid.anion)
        r == IF rule # Concatenate
             THEN ModeA(rule, ionic_liquid, c.out, a.out)
             ELSE ModeB(c.out, a.out)
    IN [m |-> a.m, refs |-> <<c.ref, a.ref>>, outcome |-> r.outcome, out |-> r.out,
        cation_features |-> c.out, anion_features |-> a.out]

-----------------------------------------------------------------------------
(* Spec: featurization.                                                    *)

ChemIdle == /\ kind = "none" /\ input = <<>> /\ chemOutcome = "none" /\ obj = NoObject
            /\ prevInput = <<>> /\ prevOutcome = "none" /\ prevObj = NoObject
FamIdle  == /\ famClass = "Ion" /\ matches = {} /\ family = "None" /\ famDone = FALSE
RuleIdle == /\ ruleName = "none" /\ ruleIL = NoObject /\ ruleC = PyNone
            /\ ruleA = PyNone /\ ruleOut = PyNone /\ ruleDone = FALSE
FeatIdle == /\ cacheTable = <<>> /\ heap = <<>>
            /\ invocations = [mol \in Mols |-> 0]
            /\ returned = [mol \in Mols |-> {}]
            /\ ncalls = 0
            /\ op = [kind |-> "none", arg |-> "none"]
            /\ outcome = "none" /\ result = EmptyDict
            /\ cation_features = EmptyDict /\ anion_features = EmptyDict

Init ==
    /\ toolkit \in [Mols -> RawMappings]
    /\ FeatIdle /\ ChemIdle /\ FamIdle /\ RuleIdle

SetMemory(m) ==
    /\ cacheTable' = m.cacheTable
    /\ heap' = m.heap
    /\ invocations' = m.invocations

\* ion_featurizers["RDKit"](ion)
CallIonFeaturizer ==
    \E which \in {"cation", "anion"} :
        LET ion == TheIL[which]
            r == IonFeaturizer_call(Memory, ion)
        IN /\ ncalls < MaxCalls
           /\ SetMemory(r.m)
           /\ returned' = [returned EXCEPT ![ion.rdkit_mol] = @ \cup {r.ref}]
           /\ ncalls' = ncalls + 1
           /\ op' = [kind |-> "IonFeaturizer", arg |-> which]
           /\ outcome' = "ok"
           /\ result' = r.out
           /\ UNCHANGED <<toolkit, cation_features, anion_features>>
           /\ UNCHANGED <<chemVars, famVars, ruleVars>>

CallIonicLiquidFeaturizer(rule) ==
    LET r == IonicLiquidFeaturizer_call(Memory, rule, TheIL)
    IN /\ ncalls < MaxCalls
       /\ SetMemory(r.m)
       /\ returned' = [returned EXCEPT
                          ![TheIL.cation.rdkit_mol] = @ \cup {r.refs[1]},
                          ![TheIL.anion.rdkit_mol] = @ \cup {r.refs[2]}]
       /\ ncalls' = ncalls + 1
       /\ op' = [kind |-> "IonicLiquidFeaturizer", arg |-> rule]
       /\ outcome' = r.outcome
       /\ result' = r.out
       /\ cation_features' = r.cation_features
       /\ anion_features' = r.anion_features
       /\ UNCHANGED toolkit
       /\ UNCHANGED <<chemVars, famVars, ruleVars>>

\* IonicLiquidFeaturizer(ion_featurizer, combining_rules[rule])(ionic_liquid)
CallModeA == \E rule \in RuleNames : CallIonicLiquidFeaturizer(rule)

\* IonicLiquidFeaturizer(ion_featurizer, None)(ionic_liquid)
CallModeB == CallIonicLiquidFeaturizer(Concatenate)

Next == CallIonFeaturizer \/ CallModeA \/ CallModeB

Spec == Init /\ [][Next]_vars

-----------------------------------------------------------------------------
(* SpecChem: construction from notation.                                   *)

FeatUnused == toolkit = [mol \in Mols |-> EmptyDict] /\ FeatIdle

InitChem == FeatUnused /\ ChemIdle /\ FamIdle /\ RuleIdle

CallFromSmiles(cls) ==
    \E smiles \in Fragments :
        LET r == Ion_from_smiles(cls, smiles)
        IN /\ kind = "none"
           /\ kind' = cls
           /\ input' = smiles
           /\ chemOutcome' = r.outcome
           /\ obj' = r.obj
           /\ UNCHANGED <<prevInput, prevOutcome, prevObj>>
           /\ UNCHANGED <<featVars, famVars, ruleVars>>

\* Ion.from_smiles(smiles)
CallIonFromSmiles == CallFromSmiles("Ion")
\* Cation.from_smiles(smiles)
CallCationFromSmiles == CallFromSmiles("Cation")
\* Anion.from_smiles(smiles)
CallAnionFromSmiles == CallFromSmiles("Anion")

\* IonicLiquid.from_smiles(smiles)
CallIonicLiquidFromSmiles ==
    \E smiles \in Notations :
        LET r == IonicLiquid_from_smiles(smiles)
        IN /\ kind = "none"
           /\ kind' = "IonicLiquid"
           /\ input' = smiles
           /\ chemOutcome' = r.outcome
           /\ obj' = r.obj
           /\ UNCHANGED <<prevInput, prevOutcome, prevObj>>
           /\ UNCHANGED <<featVars, famVars, ruleVars>>

\* a second call, IonicLiquid.from_smiles(a + "." + c), after
\* IonicLiquid.from_smiles(c + "." + a)
CallIonicLiquidFromSmilesSwapped ==
    /\ kind = "IonicLiquid"
    /\ prevOutcome = "none"
    /\ Len(Split(input)) = 2
    /\ LET parts == Split(input)
           smiles == parts[2] \o <<Dot>> \o parts[1]
           r == IonicLiquid_from_smiles(smiles)
       IN /\ input' = smiles
          /\ chemOutcome' = r.outcome
          /\ obj' = r.obj
          /\ prevInput' = input
          /\ prevOutcome' = chemOutcome
          /\ prevObj' = obj
          /\ UNCHANGED kind
          /\ UNCHANGED <<featVars, famVars, ruleVars>>

NextChem ==
    \/ CallIonFromSmiles
    \/ CallCationFromSmiles
    \/ CallAnionFromSmiles
    \/ CallIonicLiquidFromSmiles
    \/ CallIonicLiquidFromSmilesSwapped

SpecChem == InitChem /\ [][NextChem]_vars

-----------------------------------------------------------------------------
(* SpecFamily: Ion.chemical_family.  A structure is seen through the set   *)
(* of SMARTS patterns it matches.                                          *)

\* Ion.family_smarts_patterns
Ion_family_smarts_patterns == <<>>

\* Cation.family_smarts_patterns, in declaration order
Cation_family_smarts_patterns == <<
    [family |-> "imidazolium",   patterns |-> <<"c1c[n+]cn1">>],
    [family |-> "pyrazolium",    patterns |-> <<"c1cn[n+]c1">>],
    [family |-> "triazolium",    patterns |-> <<"c1nnc[n+]1", "c1c[n+]nn1", "c1n[n+]cn1">>],
    [family |-> "thiazolium",    patterns |-> <<"c1csc[n+]1">>],
    [family |-> "quinlolinium",  patterns |-> <<"c1ccc2[n+]cccc2c1", "c1ccc2c[n+]ccc2c1">>],
    [family |-> "pyridinium",    patterns |-> <<"c1cc[n+]cc1">>],
    [family |-> "pyrrolidinium", patterns |-> <<"[#6]-1-[#6]-[#6]-[#7+]-[#6]-1">>],
    [family |-> "piperidinium",  patterns |-> <<"[#6]-1-[#6]-[#6]-[#7+]-[#6]-[#6]-1">>],
    [family |-> "piperazinium",  patterns |-> <<"[#6]-1-[#6]-[#7]-[#6]-[#6]-[#7]-1">>],
    [family |-> "morpholinium",  patterns |-> <<"[#6]-1-[#6]-[#8]-[#6]-[#6]-[#7+]-1">>],
    [family |-> "phosphonium",   patterns |-> <<"[#15+]">>],
    [family |-> "guanidinium",   patterns |-> <<"[#7]-[#6](-[#7])=[#7+]">>],
    [family |-> "amidium",       patterns |-> <<"[!#1!#6][#6]=[#7+]">>],
    [family |-> "ammonium",      patterns |-> <<"[#7+]">>],
    [family |-> "cyclopropenium", patterns |-> <<"[#7]-[#6]1=,:[#6](-[#7])[#6+]1-[#7]">>],
    [family |-> "cyclic sulfonium",
     patterns |-> <<"[#6]-1-[#6]-[#6]-[#16+]-[#6]-1",
                    "[#6]-1-[#6]-[#6]-[#16+]-[#6]-[#6]-1">>],
    [family |-> "sulfonium",     patterns |-> <<"[#16+]">>] >>

\* Anion.family_smarts_patterns, in declaration order
Anion_family_smarts_patterns == <<
    [family |-> "bistriflamides", patterns |-> <<"O=S(=O)[#7-]S(=O)=O", "[#7-]S(=O)=O">>],
    [family |-> "cyclic amides",
     patterns |-> <<"c1c[n-]cn1", "c1cn[n-]c1", "c1nnn[n-]1", "c1c[n-]nn1",
                    "c1nc[n-]n1", "c1cc[n-]c1">>],
    [family |-> "methanides",    patterns |-> <<"[#6-]">>],
    [family |-> "borates",       patterns |-> <<"[#5-]">>],
    [family |-> "phosphates",    patterns |-> <<"[#15-]">>],
    [family |-> "inorganics",
     patterns |-> <<"[F,Cl,Br,I;-]", "[#8-]-[#7+](-[#8-])=O", "[#16-]C#N",
                    "[#8-][Cl+3]([#8-])([#8-])[#8-]", "[#7-]=[N+]=[#7-]">>],
    [family |-> "sulfates",      patterns |-> <<"[#8]S([#8-])(=O)=O">>],
    [family |-> "sulfonates",    patterns |-> <<"[#8-]S(=O)=O">>],
    [family |-> "organic phosphates",
     patterns |-> <<"[#8]P([#8])([#8-])=O", "[#8]-[#15](-[#8-])=O", "[#8-]-[#15]=O">>],
    [family |-> "carboxylates",  patterns |-> <<"[#8-]-[#6]=O">>],
    [family |-> "phenolates",    patterns |-> <<"[#8-]-c:1:*:*:*:*:*:1">>],
    [family |-> "carboanions",   patterns |-> <<"[#8-]-[#6]=[#6]">>],
    [family |-> "amides",        patterns |-> <<"[#7-]">>] >>

\* self.family_smarts_patterns, by class
family_smarts_patterns(cls) ==
    CASE cls = "Cation" -> Cation_family_smarts_patterns
      [] cls = "Anion"  -> Anion_family_smarts_patterns
      [] OTHER          -> Ion_family_smarts_patterns

PatternsOf(table) ==
    UNION {{table[i].patterns[j] : j \in 1..Len(table[i].patterns)} : i \in 1..Len(table)}
AllPatterns == PatternsOf(Cation_family_smarts_patterns)
               \cup PatternsOf(Anion_family_smarts_patterns)

\* the sets of at most k elements of U
RECURSIVE SubsetsUpTo(_, _)
SubsetsUpTo(U, k) ==
    IF k = 0 THEN {{}}
    ELSE LET smaller == SubsetsUpTo(U, k - 1)
         IN smaller \cup {S \cup {x} : S \in smaller, x \in U}

\* self.rdkit_mol.HasSubstructMatch(Chem.MolFromSmarts(smart_pattern))
HasSubstructMatch(matched, smart_pattern) == smart_pattern \in matched

NoFamily == "None"

\* the inner loop of chemical_family: whether a pattern from position j on matches
RECURSIVE AnyPatternMatches(_, _, _)
AnyPatternMatches(smarts_patterns, j, matched) ==
    IF j > Len(smarts_patterns) THEN FALSE
    ELSE IF HasSubstructMatch(matched, smarts_patterns[j]) THEN TRUE
    ELSE AnyPatternMatches(smarts_patterns, j + 1, matched)

\* the outer loop of chemical_family, from family i on
RECURSIVE ScanFamilies(_, _, _)
ScanFamilies(table, i, matched) ==
    IF i > Len(table) THEN NoFamily
    ELSE IF AnyPatternMatches(table[i].patterns, 1, matched) THEN table[i].family
    ELSE ScanFamilies(table, i + 1, matched)

RECURSIVE ScanFamiliesBackwards(_, _, _)
ScanFamiliesBackwards(table, i, matched) ==
    IF i < 1 THEN NoFamily
    ELSE IF AnyPatternMatches(table[i].patterns, 1, matched) THEN table[i].family
    ELSE ScanFamiliesBackwards(table, i - 1, matched)

chemical_family_last_match(table, matched) ==
    ScanFamiliesBackwards(table, Len(table), matched)

\* Ion.chemical_family
chemical_family(table, matched) == ScanFamilies(table, 1, matched)

InitFamily == FeatUnused /\ ChemIdle /\ FamIdle /\ RuleIdle

\* ion.chemical_family, for an ion of class cls whose structure matches `matched`
ReadChemicalFamily ==
    /\ ~famDone
    /\ \E cls \in {"Ion", "Cation", "Anion"} :
        \E matched \in SubsetsUpTo(AllPatterns, MaxMatches) :
            /\ famClass' = cls
            /\ matches' = matched
            /\ family' = chemical_family(family_smarts_patterns(cls), matched)
            /\ famDone' = TRUE
            /\ UNCHANGED <<featVars, chemVars, ruleVars>>

NextFamily == ReadChemicalFamily

SpecFamily == InitFamily /\ [][NextFamily]_vars

-----------------------------------------------------------------------------
(* SpecRules: the combining rules as pure functions.                       *)

\* the ionic liquids IonicLiquid.from_smiles builds from the model's notations
RuleILs == {IonicLiquid_from_smiles(smiles).obj :
                smiles \in {s \in Notations : IonicLiquid_from_smiles(s).outcome = "ok"}}

\* the feature values: the halves from -MaxVal to MaxVal
RuleValues == {PyFloat(n, 2) : n \in (-2 * MaxVal)..(2 * MaxVal)}

InitRules == FeatUnused /\ ChemIdle /\ FamIdle /\ RuleIdle

\* combining_rules[name](ionic_liquid, cation_feature, anion_feature)
ApplyRule ==
    /\ ~ruleDone
    /\ \E name \in RuleNames, il \in RuleILs, c \in RuleValues, a \in RuleValues :
           /\ ruleName' = name
           /\ ruleIL' = il
           /\ ruleC' = c
           /\ ruleA' = a
           /\ ruleOut' = combining_rule(name, il, c, a)
           /\ ruleDone' = TRUE
           /\ UNCHANGED <<featVars, chemVars, famVars>>

NextRules == ApplyRule

SpecRules == InitRules /\ [][NextRules]_vars

-----------------------------------------------------------------------------
(* Claims about featurization, checked under Spec.                         *)

LastWasIonFeaturizer == op.kind = "IonFeaturizer"
LastWasModeA == op.kind = "IonicLiquidFeaturizer" /\ op.arg \in RuleNames
LastWasModeB == op.kind = "IonicLiquidFeaturizer" /\ op.arg = Concatenate

CationMol == TheIL.cation.rdkit_mol
AnionMol == TheIL.anion.rdkit_mol

\* C1: a call with a combining rule returns without raising, and its result
\* holds exactly the names present on both sides, each mapped to
\* combining_rule(ionic_liquid, cation_value, anion_value); a name on one
\* side only is dropped.
C1_ModeADropsOneSidedNames ==
    LastWasModeA =>
        /\ outcome = "ok"
        /\ DOMAIN result = DOMAIN cation_features \cap DOMAIN anion_features
        /\ \A name \in DOMAIN cation_features \cap DOMAIN anion_features :
               result[name] = combining_rule(op.arg, TheIL, cation_features[name],
                                             anion_features[name])

\* C2: a call without a combining rule returns exactly one entry
\* <name>_cation per cation feature and one entry <name>_anion per anion
\* feature, values unchanged: |cation_features| + |anion_features| entries.
C2_ModeBConcatenates ==
    LastWasModeB =>
        /\ outcome = "ok"
        /\ DOMAIN result =
               {name \o "_cation" : name \in DOMAIN cation_features}
               \cup {name \o "_anion" : name \in DOMAIN anion_features}
        /\ \A name \in DOMAIN cation_features :
               result[name \o "_cation"] = cation_features[name]
        /\ \A name \in DOMAIN anion_features :
               result[name \o "_anion"] = anion_features[name]
        /\ Cardinality(DOMAIN result) =
               Cardinality(DOMAIN cation_features) + Cardinality(DOMAIN anion_features)

\* a concatenation where both sides hold the same name with different values
C2_Witness ==
    /\ LastWasModeB
    /\ DOMAIN cation_features = {"A"}
    /\ DOMAIN anion_features = {"A", "B"}
    /\ cation_features["A"] # anion_features["A"]
    /\ Cardinality(DOMAIN result) = 3

\* a raw value that is a number: an int, a float that is not NaN, or a str
\* that parses to one
IsNumber(value) ==
    \/ value.t \in {"int", "float"}
    \/ value.t = "str" /\ ParsesAsFloat(value.s) /\ ~IsNaN(ParseFloat(value.s))

\* a raw value float() accepts: an int, a float (NaN too), or a str that parses
FloatAccepts(value) ==
    \/ value.t \in {"int", "float", "nan"}
    \/ value.t = "str" /\ ParsesAsFloat(value.s)

\* the raw mapping's entries that satisfy Keep, as floats
CoercedWhere(raw, Keep(_)) ==
    [name \in {n \in DOMAIN raw : Keep(raw[n])} |-> ToFloat(raw[name])]

\* the mappings the ion featurizer handed back in the last call, with the
\* structure each was computed for
IonFeaturizerResults ==
    IF LastWasIonFeaturizer THEN {<<TheIL[op.arg].rdkit_mol, result>>}
    ELSE IF op.kind = "IonicLiquidFeaturizer"
    THEN {<<CationMol, cation_features>>, <<AnionMol, anion_features>>}
    ELSE {}

\* C7 as claimed: the ion featurizer returns exactly the names whose raw
\* value is a number, each mapped to that number; a value that is None,
\* categorical or NaN-producing is absent.
C7_DropsEveryNonNumber ==
    \A r \in IonFeaturizerResults : r[2] = CoercedWhere(toolkit[r[1]], IsNumber)

\* C7 as amended: the ion featurizer never raises and returns exactly the
\* names whose raw value float() accepts, each mapped to float(value); a
\* NaN value is accepted and stays in the result as NaN.
C7_DropsWhatFloatRejects ==
    /\ LastWasIonFeaturizer => outcome = "ok"
    /\ \A r \in IonFeaturizerResults : r[2] = CoercedWhere(toolkit[r[1]], FloatAccepts)

\* a call on an ion whose descriptors hold a categorical value and a NaN
C7_Witness ==
    /\ LastWasIonFeaturizer
    /\ LET raw == toolkit[TheIL[op.arg].rdkit_mol]
       IN /\ DOMAIN raw = {"A", "B"}
          /\ raw["A"] = PyStr("abc")
          /\ raw["B"] = PyNaN
    /\ DOMAIN result = {"B"}
    /\ IsNaN(result["B"])

\* C8: the wrapped function has been invoked exactly once per distinct
\* argument it was called with; every call with that argument returned the
\* one stored result; an entry once stored is never evicted.
C8_InvokedOncePerArgument ==
    \A mol \in Mols :
        /\ invocations[mol] = IF mol \in DOMAIN cacheTable THEN 1 ELSE 0
        /\ returned[mol] # {} =>
               /\ mol \in DOMAIN cacheTable
               /\ returned[mol] = {cacheTable[mol]}

\* two calls with the cation's structure, the second served from the table
C8_Witness ==
    /\ ncalls = 2
    /\ LastWasIonFeaturizer /\ op.arg = "cation"
    /\ invocations[CationMol] = 1
    /\ invocations[AnionMol] = 0
    /\ returned[CationMol] = {cacheTable[CationMol]}

\* Python's ==, on the values of the model
PyEq(x, y) ==
    \/ x = y
    \/ /\ x.t \in {"int", "float"} /\ y.t \in {"int", "float"}
       /\ x.n * y.d = y.n * x.d

\* C9: after a call the raw descriptor mapping held for a structure has the
\* names and the values the toolkit computed for it.
C9_RawMappingUnchanged ==
    \A mol \in DOMAIN cacheTable :
        LET stored == heap[cacheTable[mol]]
        IN /\ DOMAIN stored = DOMAIN toolkit[mol]
           /\ \A name \in DOMAIN stored : PyEq(stored[name], toolkit[mol][name])

-----------------------------------------------------------------------------
(* Claims about construction, checked under SpecChem.                      *)

\* the formal charge of the structure a notation parses to
NotationCharge(smiles) == GetFormalCharge(MolFromSmiles(smiles))

TwoCallsMade == kind = "IonicLiquid" /\ prevOutcome # "none"

\* C3: for a cation notation c and an anion notation a, from_smiles(c.a) and
\* from_smiles(a.c) both succeed and give the same ionic liquid: the positive
\* fragment is the cation, the negative one the anion, and the combined
\* notation is the same.
C3_OrderIndependent ==
    TwoCallsMade =>
        LET x == Split(prevInput)[1]
            y == Split(prevInput)[2]
            c == IF NotationCharge(x) > 0 THEN x ELSE y
            a == IF NotationCharge(x) > 0 THEN y ELSE x
        IN (/\ NotationCharge(c) > 0 /\ NotationCharge(a) < 0) =>
               /\ prevOutcome = "ok" /\ chemOutcome = "ok"
               /\ obj = prevObj
               /\ obj.cation.rdkit_mol = MolFromSmiles(c)
               /\ obj.anion.rdkit_mol = MolFromSmiles(a)
               /\ IonicLiquid_smiles(obj) = IonicLiquid_smiles(prevObj)
               /\ IonicLiquid_smiles(obj) =
                      MolToSmiles(MolFromSmiles(c)) \o <<Dot>> \o MolToSmiles(MolFromSmiles(a))

\* from_smiles(c.a), then from_smiles(a.c), with a cation whose canonical
\* notation differs from the one written
C3_Witness ==
    /\ TwoCallsMade
    /\ prevInput = <<"N+", "C", Dot, "Cl-">>
    /\ input = <<"Cl-", Dot, "N+", "C">>
    /\ chemOutcome = "ok"
    /\ IonicLiquid_smiles(obj) = <<"C", "N+", Dot, "Cl-">>

\* C4: IonicLiquid.from_smiles fails with InvalidChargeError when the two
\* fragments have the same charge sign or one of them has charge 0; every
\* ionic liquid it returns has cation.charge > 0 and anion.charge < 0.
C4_NoPairingRaises ==
    kind = "IonicLiquid" =>
        /\ Len(Split(input)) = 2 =>
               LET q1 == NotationCharge(Split(input)[1])
                   q2 == NotationCharge(Split(input)[2])
               IN (q1 = 0 \/ q2 = 0 \/ (q1 > 0 /\ q2 > 0) \/ (q1 < 0 /\ q2 < 0))
                      => chemOutcome = "InvalidChargeError"
        /\ chemOutcome = "ok" =>
               /\ GetFormalCharge(obj.cation.rdkit_mol) > 0
               /\ GetFormalCharge(obj.anion.rdkit_mol) < 0

\* two negatively charged fragments, refused
C4_Witness ==
    /\ kind = "IonicLiquid"
    /\ input = <<"Cl-", Dot, "C", "Cl-">>
    /\ chemOutcome = "InvalidChargeError"

\* C5: constructing an Ion, Cation or Anion from a structure of charge 0
\* raises InvalidChargeError, as does a Cation from a negative structure and
\* an Anion from a positive one; a constructed Ion has charge # 0, a Cation
\* charge > 0, an Anion charge < 0.
C5_ChargeValidated ==
    kind \in {"Ion", "Cation", "Anion"} =>
        LET q == NotationCharge(input)
        IN /\ q = 0 => chemOutcome = "InvalidChargeError"
           /\ (kind = "Cation" /\ q < 0) => chemOutcome = "InvalidChargeError"
           /\ (kind = "Anion" /\ q > 0) => chemOutcome = "InvalidChargeError"
           /\ chemOutcome = "ok" =>
                  /\ obj.cls = kind
                  /\ GetFormalCharge(obj.rdkit_mol) # 0
                  /\ kind = "Cation" => GetFormalCharge(obj.rdkit_mol) > 0
                  /\ kind = "Anion" => GetFormalCharge(obj.rdkit_mol) < 0

\* an Anion asked for from a positively charged structure, refused
C5_Witness ==
    /\ kind = "Anion"
    /\ input = <<"C", "N+">>
    /\ chemOutcome = "InvalidChargeError"

-----------------------------------------------------------------------------
(* The claim about classification, checked under SpecFamily.               *)

\* the positions of the families of a table with a pattern among `matched`
MatchingFamilies(table, matched) ==
    {i \in 1..Len(table) :
        \E j \in 1..Len(table[i].patterns) : table[i].patterns[j] \in matched}

\* C6: chemical_family is the first family, in the table's declaration
\* order, with a pattern the structure matches, and None exactly when no
\* pattern of the table matches; a pyridinium that also matches the ammonium
\* pattern is a pyridinium.
C6_FirstMatchingFamily ==
    famDone =>
        LET table == family_smarts_patterns(famClass)
            hits == MatchingFamilies(table, matches)
        IN /\ hits = {} => family = NoFamily
           /\ hits # {} =>
                  \E i \in hits : /\ \A k \in hits : i <= k
                                 /\ family = table[i].family
           /\ family = NoFamily <=> hits = {}
           /\ (famClass = "Cation" /\ matches = {"c1cc[n+]cc1", "[#7+]"})
                  => family = "pyridinium"

\* a cation that matches the pyridinium and the ammonium patterns
C6_Witness ==
    /\ famDone
    /\ famClass = "Cation"
    /\ matches = {"c1cc[n+]cc1", "[#7+]"}
    /\ family = "pyridinium"

-----------------------------------------------------------------------------
(* The claim about the unweighted rules, checked under SpecRules.          *)

\* x = n/d, x <= y and 0 <= x on floats that are numbers
NumIs(x, n, d) == x.t = "float" /\ x.n * d = n * x.d
NumLE(x, y) == x.n * y.d <= y.n * x.d
NonNegative(x) == x.n >= 0 /\ x.d > 0

-----------------------------------------------------------------------------
(* The claim about the weighted rules, checked under SpecRules.            *)

WeightedRules == {"mean_atom_count", "mean_molecular_weight"}

\* the weights the applied rule takes from an ion: its atom count or its
\* molecular weight
RuleWeight(ion) ==
    IF ruleName = "mean_atom_count" THEN PyInt(atom_count(ion))
    ELSE molecular_weight(ion)

\* the denominator the applied rule divides by
RuleDenominator ==
    IF ruleName = "mean_atom_count" THEN PyInt(IonicLiquid_atom_count(ruleIL))
    ELSE IonicLiquid_molecular_weight(ruleIL)

\* the weighted mean (wc * c + wa * a) / (wc + wa) in exact arithmetic, as the
\* fraction <<numerator, denominator>> with a positive denominator
ExactWeightedMean(wc, wa, c, a) ==
    <<(wc.n * c.n * wa.d * a.d + wa.n * a.n * wc.d * c.d) * wc.d * wa.d,
      wc.d * c.d * wa.d * a.d * (wc.n * wa.d + wa.n * wc.d)>>

\* the larger of |c| and |a|, as a fraction
LargerMagnitude(c, a) ==
    IF Abs(c.n) * a.d >= Abs(a.n) * c.d THEN <<Abs(c.n), c.d>> ELSE <<Abs(a.n), a.d>>

\* |x - p| <= k * 2^(-FloatBits) * q, for a float x and fractions p, q
WithinRounding(x, p, k, q) ==
    Abs(x.n * p[2] - p[1] * x.d) * 2^FloatBits * q[2] <= k * q[1] * x.d * p[2]

\* the roundings between the exact weighted mean and the value returned:
\* product, sum and quotient, and for the molecular weights the sum in the
\* denominator as well
RuleRoundings == IF ruleName = "mean_atom_count" THEN 4 ELSE 6

\* C11 as claimed: the weighted rules return exactly
\* (wc * c + wa * a) / w_il, the denominator is not zero, the result is v
\* when c = a = v, and it lies between min(c, a) and max(c, a).
C11_WeightedMeanExact ==
    (ruleDone /\ ruleName \in WeightedRules) =>
        LET wc == RuleWeight(ruleIL.cation)
            wa == RuleWeight(ruleIL.anion)
            w == RuleDenominator
            c == ruleC
            a == ruleA
        IN /\ w.n # 0
           /\ ruleOut.t = "float"
           /\ ruleOut.n * w.n * (wc.d * c.d * wa.d * a.d) =
                  (wc.n * c.n * wa.d * a.d + wa.n * a.n * wc.d * c.d) * w.d * ruleOut.d
           /\ c = a => ruleOut = c
           /\ NumLE(PyMin(c, a), ruleOut) /\ NumLE(ruleOut, PyMax(c, a))

\* C11 as amended: every ion has at least one atom and a positive weight, so
\* the denominator is not zero; the result is the weighted mean
\* (wc * c + wa * a) / (wc + wa) up to the rounding of the float operations
\* that compute it: it differs from the exact mean, from v when c = a = v, and
\* from the interval [min(c, a), max(c, a)] by at most a few units of
\* 2^(-FloatBits) times max(|c|, |a|).
C11_WeightedMeanRounded ==
    (ruleDone /\ ruleName \in WeightedRules) =>
        LET wc == RuleWeight(ruleIL.cation)
            wa == RuleWeight(ruleIL.anion)
            w == RuleDenominator
            c == ruleC
            a == ruleA
            k == RuleRoundings
            big == LargerMagnitude(c, a)
            lo == PyMin(c, a)
            hi == PyMax(c, a)
        IN /\ atom_count(ruleIL.cation) >= 1 /\ atom_count(ruleIL.anion) >= 1
           /\ wc.n > 0 /\ wa.n > 0 /\ w.n > 0
           /\ ruleOut.t = "float"
           /\ WithinRounding(ruleOut, ExactWeightedMean(wc, wa, c, a), k, big)
           /\ c = a => WithinRounding(ruleOut, <<c.n, c.d>>, k, big)
           /\ \/ NumLE(lo, ruleOut) /\ NumLE(ruleOut, hi)
              \/ WithinRounding(ruleOut, <<lo.n, lo.d>>, k, big)
              \/ WithinRounding(ruleOut, <<hi.n, hi.d>>, k, big)

\* mean_atom_count of c = a = 3/2 over two cation atoms and one anion atom:
\* the sum 9/2 is no float, and the result is not 3/2
C11_Witness ==
    /\ ruleDone
    /\ ruleName = "mean_atom_count"
    /\ atom_count(ruleIL.cation) = 2
    /\ atom_count(ruleIL.anion) = 1
    /\ ruleC = PyFloat(3, 2)
    /\ ruleA = PyFloat(3, 2)
    /\ ruleOut # ruleC

-----------------------------------------------------------------------------
(* The claim about repeated featurization, checked under Spec.             *)

\* the memory of a process that has featurized nothing yet
FreshMemory ==
    [cacheTable |-> <<>>, heap |-> <<>>, invocations |-> [mol \in Mols |-> 0]]

\* what the last call gives when it is the first call of the process
AsFirstCall ==
    IF LastWasIonFeaturizer
    THEN [outcome |-> "ok", out |-> IonFeaturizer_call(FreshMemory, TheIL[op.arg]).out]
    ELSE LET r == IonicLiquidFeaturizer_call(FreshMemory, op.arg, TheIL)
         IN [outcome |-> r.outcome, out |-> r.out]

\* C12: whatever calls came before it, and whatever they left in the shared
\* raw mapping, a call ends as the same call ends when it is the first one:
\* the same outcome and the same result, so every repetition of a call gives
\* what its first occurrence gave.
C12_RepeatedCallsStable ==
    op.kind # "none" =>
        /\ outcome = AsFirstCall.outcome
        /\ result = AsFirstCall.out

\* the cation featurized twice in a row: the first call left None in place of
\* the categorical value and a float in place of the numeric string, and the
\* second call, reading that mapping, returns the one numeric feature again
C12_Witness ==
    /\ ncalls = 2
    /\ LastWasIonFeaturizer /\ op.arg = "cation"
    /\ invocations[CationMol] = 1
    /\ invocations[AnionMol] = 0
    /\ toolkit[CationMol] = [name \in {"A", "B"} |->
                                IF name = "A" THEN PyStr("abc") ELSE PyStr("2")]
    /\ heap[cacheTable[CationMol]] = [name \in {"A", "B"} |->
                                         IF name = "A" THEN PyNone ELSE PyFloat(2, 1)]
    /\ result = [name \in {"B"} |-> PyFloat(2, 1)]

=============================================================================
